---- MODULE Spec2Model ----
(***************************************************************************)
(* Model of src/script.py: VideoFaceLandmarksTracker.                      *)
(*                                                                         *)
(* One tracker object is modelled.  process_video is split at its frame    *)
(* loop: ProcessVideoBegin (lines 114-133), ReadFrame (one iteration of    *)
(* the loop, lines 135-166) and Finish (lines 168-190, save_to_json        *)
(* included).  load_from_json, get_statistics and get_frame_landmarks are  *)
(* one action each.                                                        *)
(*                                                                         *)
(* Python values:                                                          *)
(*   number  [t |-> "int" | "float", n, d]   the rational n/d, reduced     *)
(*   list    [t |-> "list",  items |-> <<...>>]                            *)
(*   tuple   [t |-> "tuple", items |-> <<...>>]                            *)
(*   dict    a function from its keys; {} is the function of empty domain  *)
(* A JSON document is a tree of objects (functions), arrays (sequences)    *)
(* and number literals [lit |-> "integer" | "real", n, d].                 *)
(***************************************************************************)
EXTENDS Integers, Sequences, FiniteSets, TLC

VARIABLES landmarks_data, files, cap, pc, call, total_frames, frame_count,
          printed, result, last, ret

vars == <<landmarks_data, files, cap, pc, call, total_frames, frame_count,
          printed, result, last, ret>>

-----------------------------------------------------------------------------
(* Bounds of the model *)

\* longest video whose frames are drawn freely from FrameKinds
MaxShortLen == 2

\* frame numbers asked of get_frame_landmarks
MaxQuery == 2

(* Program constants *)

\* frame_count % 30 == 0
ProgressInterval == 30

\* f"frame_{frame_count:06d}"
KeyWidth == 6

VideoPath == "./video.mp4"

-----------------------------------------------------------------------------
(* Numbers *)

RECURSIVE Gcd(_, _)
Gcd(a, b) == IF b = 0 THEN a ELSE Gcd(b, a % b)

PyInt(v) == [t |-> "int", n |-> v, d |-> 1]

PyFloat(n, d) == LET g == Gcd(n, d) IN [t |-> "float", n |-> n \div g, d |-> d \div g]

\* a / b of Python: true division, always a float; the caller has ruled out b = 0
TrueDiv(a, b) == PyFloat(a.n * b.d, a.d * b.n)

\* a * b with at least one float operand
FloatMul(a, b) == PyFloat(a.n * b.n, a.d * b.d)

IsZero(a) == a.n = 0

-----------------------------------------------------------------------------
(* Python containers *)

EmptyDict == [k \in {} |-> 0]

List(s) == [t |-> "list", items |-> s]

Tuple(s) == [t |-> "tuple", items |-> s]

-----------------------------------------------------------------------------
(* Frames, videos and the other inputs of a call *)

\* one landmark of the detector, normalized to [0,1] x [0,1]
Landmark(xn, xd, yn, yd) == [x |-> PyFloat(xn, xd), y |-> PyFloat(yn, yd)]

\* a decoded frame: its shape, what detector.detect finds in it, and whether
\* cvtColor/detect raise on it
FaceFrame == [h |-> 2, w |-> 4, bad |-> FALSE,
              face_landmarks |-> << <<Landmark(1, 2, 1, 4), Landmark(3, 4, 1, 2)>> >>]

NoFaceFrame == [h |-> 2, w |-> 4, bad |-> FALSE, face_landmarks |-> <<>>]

BadFrame == [h |-> 2, w |-> 4, bad |-> TRUE, face_landmarks |-> <<>>]

FrameKinds == {FaceFrame, NoFaceFrame, BadFrame}

\* what os.path.exists and cv2.VideoCapture find at video_path
VideoKinds == {"missing", "unopenable", "ok"}

\* cap.get(cv2.CAP_PROP_FPS)
FpsValues == {PyFloat(0, 1), PyFloat(30, 1)}

\* int(cap.get(cv2.CAP_PROP_FRAME_COUNT)): zero, or a count that is larger
\* than a short video and smaller than a long one
FrameCountHints == {PyInt(0), PyInt(MaxShortLen + 1)}

\* how a frame sequence ends: end of stream or a decode failure
EndKinds == {"eos", "fail"}

\* output_json; "" is None
OutputPaths == {"", "out.json", "ro.json", "full.json"}

Paths == {"out.json", "ro.json", "full.json"}

\* contents of a path
Missing == [kind |-> "missing", doc |-> EmptyDict]

Malformed == [kind |-> "malformed", doc |-> EmptyDict]

JsonFile(doc) == [kind |-> "json", doc |-> doc]

\* what open(path, 'w') and json.dump meet at a path: "ro.json" cannot be
\* opened for writing, the device of "full.json" fills up during the dump
WriteOutcome(path) ==
    CASE path = "ro.json" -> "open_fails"
      [] path = "full.json" -> "dump_fails"
      [] OTHER -> "ok"

-----------------------------------------------------------------------------
(* Frame keys: f"frame_{n:06d}" *)

RECURSIVE Digits(_)
Digits(n) == IF n < 10 THEN <<n>> ELSE Append(Digits(n \div 10), n % 10)

RECURSIVE ZeroPad(_, _)
ZeroPad(ds, width) == IF Len(ds) >= width THEN ds ELSE ZeroPad(<<0>> \o ds, width)

FrameKeyCollide(n) == [prefix |-> "frame_", digits |-> ZeroPad(Digits(n % 2), KeyWidth)]

FrameKey(n) == [prefix |-> "frame_", digits |-> ZeroPad(Digits(n), KeyWidth)]

-----------------------------------------------------------------------------
(* _extract_landmarks_from_frame *)

\* the list of (x, y) tuples built by the loop over the first face
LandmarkPoints(frame) ==
    LET landmarks == frame.face_landmarks[1]
    IN  List([i \in 1..Len(landmarks) |->
                Tuple(<<FloatMul(landmarks[i].x, PyInt(frame.w)),
                        FloatMul(landmarks[i].y, PyInt(frame.h))>>)])

ExtractLandmarksFromFrame(frame) ==
    IF frame.bad
    THEN [raised |-> TRUE, value |-> List(<<>>)]
    ELSE IF Len(frame.face_landmarks) = 0
         THEN [raised |-> FALSE, value |-> List(<<>>)]
         ELSE [raised |-> FALSE, value |-> LandmarkPoints(frame)]

-----------------------------------------------------------------------------
(* The frame record and the metadata of process_video *)

\* the dict stored under frame_key; both branches of "if landmarks"
FrameRecord(n, fps, landmarks) ==
    IF Len(landmarks.items) > 0
    THEN [frame_number |-> PyInt(n),
          timestamp |-> TrueDiv(PyInt(n), fps),
          landmarks |-> landmarks,
          num_landmarks |-> PyInt(Len(landmarks.items))]
    ELSE [frame_number |-> PyInt(n),
          timestamp |-> TrueDiv(PyInt(n), fps),
          landmarks |-> List(<<>>),
          num_landmarks |-> PyInt(0)]

\* sum(1 for data in d.values() if data["num_landmarks"] > 0)
FramesWithFace(d) == Cardinality({k \in DOMAIN d : d[k].num_landmarks.n > 0})

RECURSIVE SumOver(_, _)
SumOver(d, keys) ==
    IF keys = {} THEN 0
    ELSE LET k == CHOOSE x \in keys : TRUE
         IN  d[k].num_landmarks.n + SumOver(d, keys \ {k})

\* sum(data["num_landmarks"] for data in d.values())
SumLandmarks(d) == SumOver(d, DOMAIN d)

Metadata(video_path, n, fps, d) ==
    [video_path |-> video_path,
     total_frames |-> PyInt(n),
     fps |-> fps,
     duration_seconds |-> TrueDiv(PyInt(n), fps),
     frames_with_face |-> PyInt(FramesWithFace(d))]

TrackingResult(metadata, frames) == [metadata |-> metadata, frames |-> frames]

AccumulatorKeep(old) == old

\* self.landmarks_data = {}
FreshAccumulator(old) == EmptyDict

-----------------------------------------------------------------------------
(* json.dump and json.load on the values process_video builds *)

\* an int is written as an integer literal, a float by its repr (with a
\* fraction part), and each is read back as the type its literal denotes
DumpNumber(x) == [lit |-> IF x.t = "int" THEN "integer" ELSE "real", n |-> x.n, d |-> x.d]

LoadNumber(j) == [t |-> IF j.lit = "integer" THEN "int" ELSE "float", n |-> j.n, d |-> j.d]

\* a tuple and a list are both written as an array
DumpArray(v) == [i \in 1..Len(v.items) |-> DumpNumber(v.items[i])]

\* an array is read back as a list
LoadArray(a) == List([i \in 1..Len(a) |-> LoadNumber(a[i])])

DumpLandmarksReversed(l) ==
    [i \in 1..Len(l.items) |-> DumpArray(l.items[Len(l.items) + 1 - i])]

DumpLandmarks(l) == [i \in 1..Len(l.items) |-> DumpArray(l.items[i])]

LoadLandmarks(a) == List([i \in 1..Len(a) |-> LoadArray(a[i])])

DumpFrame(r) ==
    [frame_number |-> DumpNumber(r.frame_number),
     timestamp |-> DumpNumber(r.timestamp),
     landmarks |-> DumpLandmarks(r.landmarks),
     num_landmarks |-> DumpNumber(r.num_landmarks)]

LoadFrame(j) ==
    [frame_number |-> LoadNumber(j.frame_number),
     timestamp |-> LoadNumber(j.timestamp),
     landmarks |-> LoadLandmarks(j.landmarks),
     num_landmarks |-> LoadNumber(j.num_landmarks)]

DumpMetadata(m) ==
    [video_path |-> m.video_path,
     total_frames |-> DumpNumber(m.total_frames),
     fps |-> DumpNumber(m.fps),
     duration_seconds |-> DumpNumber(m.duration_seconds),
     frames_with_face |-> DumpNumber(m.frames_with_face)]

LoadMetadata(j) ==
    [video_path |-> j.video_path,
     total_frames |-> LoadNumber(j.total_frames),
     fps |-> LoadNumber(j.fps),
     duration_seconds |-> LoadNumber(j.duration_seconds),
     frames_with_face |-> LoadNumber(j.frames_with_face)]

\* json.dump(data, f, indent=2, ensure_ascii=False)
JsonDump(data) ==
    [metadata |-> DumpMetadata(data.metadata),
     frames |-> [k \in DOMAIN data.frames |-> DumpFrame(data.frames[k])]]

\* json.load(f): the document {} or a document written by JsonDump
JsonLoad(doc) ==
    IF DOMAIN doc = {}
    THEN EmptyDict
    ELSE [metadata |-> LoadMetadata(doc.metadata),
          frames |-> [k \in DOMAIN doc.frames |-> LoadFrame(doc.frames[k])]]

-----------------------------------------------------------------------------
(* save_to_json and load_from_json *)

SavedMsg == "Datos guardados en"

SaveErrorMsg == "Error al guardar JSON"

LoadErrorMsg == "Error al cargar JSON"

SaveToJsonNoCatch(data, output_path, fs) ==
    CASE WriteOutcome(output_path) = "open_fails" ->
            [files |-> fs, printed |-> {}, raised |-> TRUE]
      [] WriteOutcome(output_path) = "dump_fails" ->
            [files |-> [fs EXCEPT ![output_path] = Malformed],
             printed |-> {}, raised |-> TRUE]
      [] OTHER ->
            [files |-> [fs EXCEPT ![output_path] = JsonFile(JsonDump(data))],
             printed |-> {SavedMsg}, raised |-> FALSE]

\* every exception of open and json.dump is caught and printed; a dump that
\* fails leaves the file opened with 'w' truncated or partly written
SaveToJson(data, output_path, fs) ==
    CASE WriteOutcome(output_path) = "open_fails" ->
            [files |-> fs, printed |-> {SaveErrorMsg}, raised |-> FALSE]
      [] WriteOutcome(output_path) = "dump_fails" ->
            [files |-> [fs EXCEPT ![output_path] = Malformed],
             printed |-> {SaveErrorMsg}, raised |-> FALSE]
      [] OTHER ->
            [files |-> [fs EXCEPT ![output_path] = JsonFile(JsonDump(data))],
             printed |-> {SavedMsg}, raised |-> FALSE]

\* every exception of open and json.load is caught, printed and answered by {}
LoadFromJson(json_path, fs) ==
    IF fs[json_path].kind = "json"
    THEN [raised |-> FALSE, value |-> JsonLoad(fs[json_path].doc), printed |-> {}]
    ELSE [raised |-> FALSE, value |-> EmptyDict, printed |-> {LoadErrorMsg}]

-----------------------------------------------------------------------------
(* get_frame_landmarks and get_statistics *)

GetFrameLandmarks(d, frame_number) ==
    IF FrameKey(frame_number) \in DOMAIN d
    THEN d[FrameKey(frame_number)].landmarks
    ELSE List(<<>>)

GetStatistics(d) ==
    IF DOMAIN d = {}
    THEN EmptyDict
    ELSE LET frames_with_face == FramesWithFace(d)
             stats_total_frames == Cardinality(DOMAIN d)
         IN  [total_frames |-> PyInt(stats_total_frames),
              frames_with_face |-> PyInt(frames_with_face),
              detection_rate |->
                  IF stats_total_frames > 0
                  THEN TrueDiv(PyInt(frames_with_face), PyInt(stats_total_frames))
                  ELSE PyInt(0),
              average_landmarks_per_frame |->
                  IF stats_total_frames > 0
                  THEN TrueDiv(PyInt(SumLandmarks(d)), PyInt(stats_total_frames))
                  ELSE PyInt(0)]

-----------------------------------------------------------------------------
(* The tracker and its environment *)

NoCall == [kind |-> "none", frames |-> <<>>, end |-> "unread",
           fps |-> PyFloat(0, 1), output_json |-> ""]

NoResult == [kind |-> "none", exc |-> "", value |-> EmptyDict, log |-> {}]

NoRet == [op |-> "none", arg |-> "", raised |-> FALSE, value |-> EmptyDict, log |-> {}]

Returned(value, log) == [kind |-> "returned", exc |-> "", value |-> value, log |-> log]

Raised(exc, log) == [kind |-> "raised", exc |-> exc, value |-> EmptyDict, log |-> log]

TypeOK ==
    /\ pc \in {"idle", "loop", "finish"}
    /\ cap \in {"none", "unopened", "open", "released"}
    /\ frame_count \in 0..ProgressInterval
    /\ DOMAIN files = Paths
    /\ result.kind \in {"none", "returned", "raised"}
    /\ last \in {"none", "process_video", "load_from_json", "get_statistics",
                 "get_frame_landmarks"}

\* __init__: no landmarks; on disk, "ro.json" holds the JSON document {}
Init ==
    /\ landmarks_data = EmptyDict
    /\ files = [p \in Paths |-> IF p = "ro.json" THEN JsonFile(EmptyDict) ELSE Missing]
    /\ cap = "none"
    /\ pc = "idle"
    /\ call = NoCall
    /\ total_frames = PyInt(0)
    /\ frame_count = 0
    /\ printed = {}
    /\ result = NoResult
    /\ last = "none"
    /\ ret = NoRet

\* an exception leaves process_video
RaiseFromProcessVideo(exc) ==
    /\ pc' = "idle"
    /\ result' = Raised(exc, printed)
    /\ printed' = {}
    /\ total_frames' = PyInt(0)
    /\ frame_count' = 0

\* process_video, lines 114-133: the existence check, cv2.VideoCapture,
\* the isOpened check, the container's frame count and fps, the reset of
\* the accumulator
ProcessVideoBegin(kind, fps, hint, output_json) ==
    /\ pc = "idle"
    /\ last' = "process_video"
    /\ ret' = NoRet
    /\ UNCHANGED files
    /\ CASE kind = "missing" ->
              /\ call' = [NoCall EXCEPT !.kind = kind, !.output_json = output_json]
              /\ cap' = "none"
              /\ RaiseFromProcessVideo("FileNotFoundError")
              /\ UNCHANGED landmarks_data
         [] kind = "unopenable" ->
              /\ call' = [NoCall EXCEPT !.kind = kind, !.output_json = output_json]
              /\ cap' = "unopened"
              /\ RaiseFromProcessVideo("ValueError")
              /\ UNCHANGED landmarks_data
         [] OTHER ->
              /\ call' = [kind |-> kind, frames |-> <<>>, end |-> "unread",
                          fps |-> fps, output_json |-> output_json]
              /\ total_frames' = hint
              /\ cap' = "open"
              /\ printed' = {"Procesando video"}
              /\ frame_count' = 0
              /\ landmarks_data' = FreshAccumulator(landmarks_data)
              /\ result' = NoResult
              /\ pc' = "loop"

\* the videos of the model: every frame sequence of at most MaxShortLen
\* frames, and the sequence of ProgressInterval frames without a face
AllNoFace(frames) == \A i \in 1..Len(frames) : frames[i] = NoFaceFrame

CanDecode(frames, frame) ==
    \/ Len(frames) < MaxShortLen
    \/ /\ Len(frames) < ProgressInterval
       /\ AllNoFace(frames)
       /\ frame = NoFaceFrame

CanEnd(frames) == Len(frames) <= MaxShortLen \/ Len(frames) = ProgressInterval

\* self.landmarks_data[frame_key] = record
Store(d, key, record) == [k \in DOMAIN d \cup {key} |-> IF k = key THEN record ELSE d[k]]

\* process_video, lines 135-166: one iteration of the loop in which
\* cap.read() returns a frame
ReadFrame(frame) ==
    /\ pc = "loop"
    /\ CanDecode(call.frames, frame)
    /\ call' = [call EXCEPT !.frames = Append(@, frame)]
    /\ UNCHANGED <<files, cap, last, ret>>
    /\ LET n == frame_count + 1
           landmarks == ExtractLandmarksFromFrame(frame)
       IN  IF landmarks.raised
           THEN /\ RaiseFromProcessVideo("RuntimeError")
                /\ UNCHANGED landmarks_data
           ELSE IF IsZero(call.fps)
           THEN /\ RaiseFromProcessVideo("ZeroDivisionError")
                /\ UNCHANGED landmarks_data
           ELSE /\ landmarks_data' =
                       Store(landmarks_data, FrameKey(n),
                             FrameRecord(n, call.fps, landmarks.value))
                /\ IF n % ProgressInterval = 0
                   THEN IF IsZero(total_frames)
                        THEN RaiseFromProcessVideo("ZeroDivisionError")
                        ELSE /\ printed' = printed \cup {"Progreso"}
                             /\ frame_count' = n
                             /\ UNCHANGED <<pc, total_frames, result>>
                   ELSE /\ frame_count' = n
                        /\ UNCHANGED <<pc, total_frames, result, printed>>

\* process_video, lines 136-138: cap.read() returns ret = False, at the end
\* of the stream and at a decode failure alike, and the loop breaks
ReadEnd(end) ==
    /\ pc = "loop"
    /\ CanEnd(call.frames)
    /\ call' = [call EXCEPT !.end = end]
    /\ pc' = "finish"
    /\ UNCHANGED <<landmarks_data, files, cap, total_frames, frame_count, printed,
                   result, last, ret>>

\* process_video, lines 168-190: cap.release(), the metadata, the result,
\* save_to_json when output_json is given, return
Finish ==
    /\ pc = "finish"
    /\ cap' = "released"
    /\ UNCHANGED <<landmarks_data, call, last, ret>>
    /\ IF IsZero(call.fps)
       THEN /\ pc' = "idle"
            /\ result' = Raised("ZeroDivisionError", printed \cup {"Procesamiento completado"})
            /\ printed' = {}
            /\ total_frames' = PyInt(0)
            /\ frame_count' = 0
            /\ UNCHANGED files
       ELSE LET value == TrackingResult(
                             Metadata(VideoPath, frame_count, call.fps, landmarks_data),
                             landmarks_data)
                saved == IF call.output_json # ""
                         THEN SaveToJson(value, call.output_json, files)
                         ELSE [files |-> files, printed |-> {}, raised |-> FALSE]
                log == printed \cup {"Procesamiento completado"} \cup saved.printed
            IN  /\ files' = saved.files
                /\ pc' = "idle"
                /\ result' = IF saved.raised THEN Raised("OSError", log)
                                             ELSE Returned(value, log)
                /\ printed' = {}
                /\ total_frames' = PyInt(0)
                /\ frame_count' = 0

\* load_from_json(json_path)
LoadFromJsonCall(json_path) ==
    /\ pc = "idle"
    /\ LET loaded == LoadFromJson(json_path, files)
       IN  ret' = [op |-> "load_from_json", arg |-> json_path, raised |-> loaded.raised,
                   value |-> loaded.value, log |-> loaded.printed]
    /\ last' = "load_from_json"
    /\ UNCHANGED <<landmarks_data, files, cap, pc, call, total_frames, frame_count,
                   printed, result>>

\* get_statistics()
GetStatisticsCall ==
    /\ pc = "idle"
    /\ ret' = [op |-> "get_statistics", arg |-> "", raised |-> FALSE,
               value |-> GetStatistics(landmarks_data), log |-> {}]
    /\ last' = "get_statistics"
    /\ UNCHANGED <<landmarks_data, files, cap, pc, call, total_frames, frame_count,
                   printed, result>>

\* get_frame_landmarks(frame_number)
GetFrameLandmarksCall(frame_number) ==
    /\ pc = "idle"
    /\ ret' = [op |-> "get_frame_landmarks", arg |-> "", raised |-> FALSE,
               value |-> GetFrameLandmarks(landmarks_data, frame_number), log |-> {}]
    /\ last' = "get_frame_landmarks"
    /\ UNCHANGED <<landmarks_data, files, cap, pc, call, total_frames, frame_count,
                   printed, result>>

Next ==
    \/ \E kind \in VideoKinds, fps \in FpsValues, hint \in FrameCountHints,
          output_json \in OutputPaths :
            ProcessVideoBegin(kind, fps, hint, output_json)
    \/ \E frame \in FrameKinds : ReadFrame(frame)
    \/ \E end \in EndKinds : ReadEnd(end)
    \/ Finish
    \/ \E json_path \in Paths : LoadFromJsonCall(json_path)
    \/ GetStatisticsCall
    \/ \E frame_number \in 1..MaxQuery : GetFrameLandmarksCall(frame_number)

Spec == Init /\ [][Next]_vars

-----------------------------------------------------------------------------
(* What a call's decoded frames determine *)

\* process_video has been called and has left, by return or by exception
Exited == pc = "idle" /\ result.kind # "none"

NoBadFrame(frames) == \A i \in 1..Len(frames) : ~frames[i].bad

\* the record of the i-th decoded frame
RecordOfFrame(frames, fps, i) ==
    FrameRecord(i, fps, ExtractLandmarksFromFrame(frames[i]).value)

\* the records of the first n decoded frames, under their keys
RecordsOfFrames(frames, fps, n) ==
    [k \in {FrameKey(i) : i \in 1..n} |->
        RecordOfFrame(frames, fps, CHOOSE i \in 1..n : FrameKey(i) = k)]

FrameNumbers(frames) == {frames[k].frame_number.n : k \in DOMAIN frames}

-----------------------------------------------------------------------------
(* C1 *)

\* C1: whenever process_video returns a result, its frames mapping has
\* exactly metadata.total_frames entries, one per decoded frame, and their
\* frame_number values are exactly 1..total_frames.
C1_FramesAreOneToTotal ==
    (pc = "idle" /\ result.kind = "returned") =>
        LET frames == result.value.frames
            total == result.value.metadata.total_frames.n
        IN  /\ total = Len(call.frames)
            /\ Cardinality(DOMAIN frames) = total
            /\ FrameNumbers(frames) = 1..total

\* a returned result with a face detected in one frame and none in another
C1_Witness ==
    /\ pc = "idle"
    /\ result.kind = "returned"
    /\ result.value.metadata.total_frames.n >= 2
    /\ result.value.metadata.frames_with_face.n >= 1
    /\ result.value.metadata.frames_with_face.n < result.value.metadata.total_frames.n

-----------------------------------------------------------------------------
(* C2 *)

\* C2: with fps = 0 reported by the container, process_video on a video
\* whose frames all decode and detect completes without raising, reports
\* duration_seconds = 0 and writes the output file when output_json is given.
C2_ZeroFpsCompletes ==
    (Exited /\ call.kind = "ok" /\ IsZero(call.fps) /\ NoBadFrame(call.frames)) =>
        /\ result.kind = "returned"
        /\ IsZero(result.value.metadata.duration_seconds)
        /\ (call.output_json = "out.json" =>
               files["out.json"] = JsonFile(JsonDump(result.value)))

-----------------------------------------------------------------------------
(* C3 *)

\* C3: with no accumulated frame record, get_statistics raises nothing and
\* returns statistics whose detection_rate and average_landmarks_per_frame
\* are both 0.
C3_EmptyStatisticsAreZero ==
    (pc = "idle" /\ last = "get_statistics" /\ DOMAIN landmarks_data = {}) =>
        /\ ~ret.raised
        /\ {"detection_rate", "average_landmarks_per_frame"} \subseteq DOMAIN ret.value
        /\ IsZero(ret.value.detection_rate)
        /\ IsZero(ret.value.average_landmarks_per_frame)

-----------------------------------------------------------------------------
(* C4 *)

\* C4: load_from_json of a path whose file is missing or malformed reports
\* the failure to its caller; it does not return the empty structure that
\* a successful load of the document {} returns.
C4_LoadFailureIsReported ==
    (pc = "idle" /\ last = "load_from_json" /\ files[ret.arg].kind # "json") =>
        (ret.raised \/ ret.value # JsonLoad(EmptyDict))

-----------------------------------------------------------------------------
(* C5 *)

\* the coordinate pairs of a landmarks list, in order
Coordinates(landmarks) == [i \in 1..Len(landmarks.items) |-> landmarks.items[i].items]

\* same metadata values, same frame keys, and in each frame the same
\* frame_number, timestamp, num_landmarks and coordinate pairs in order
StructurallyEqual(a, b) ==
    /\ DOMAIN a = DOMAIN b
    /\ DOMAIN a = {"metadata", "frames"}
    /\ a.metadata = b.metadata
    /\ DOMAIN a.frames = DOMAIN b.frames
    /\ \A k \in DOMAIN a.frames :
          /\ a.frames[k].frame_number = b.frames[k].frame_number
          /\ a.frames[k].timestamp = b.frames[k].timestamp
          /\ a.frames[k].num_landmarks = b.frames[k].num_landmarks
          /\ Coordinates(a.frames[k].landmarks) = Coordinates(b.frames[k].landmarks)

\* load_from_json has just read the path the last process_video call, which
\* returned a result, handed to save_to_json
LoadedTheSavedPath ==
    /\ pc = "idle"
    /\ last = "load_from_json"
    /\ result.kind = "returned"
    /\ ret.arg = call.output_json

\* C5 as stated: save_to_json of a process_video result to a path, then
\* load_from_json of that path, returns a structurally equal result.
C5_RoundTrip ==
    LoadedTheSavedPath => StructurallyEqual(ret.value, result.value)

\* C5 amended: when save_to_json wrote the file (it printed "Datos guardados
\* en"), load_from_json of that path returns a structurally equal result.
C5_RoundTripOfSuccessfulSave ==
    (LoadedTheSavedPath /\ SavedMsg \in result.log) =>
        StructurallyEqual(ret.value, result.value)

\* a result with a detected face was saved and loaded back
C5_Witness ==
    /\ LoadedTheSavedPath
    /\ SavedMsg \in result.log
    /\ \E k \in DOMAIN result.value.frames :
          Len(result.value.frames[k].landmarks.items) >= 2

-----------------------------------------------------------------------------
(* C6 *)

\* the report of a decode failure: a printed message or an exception
DecodeFailureReport == "DecodeFailure"

\* C6: when decoding fails after k frames (fps # 0, every frame detects),
\* process_video completes with
\* total_frames = k and records for exactly frames 1..k, writes that result
\* when output_json is given, and reports the decode failure.
C6_DecodeFailureIsReported ==
    (Exited /\ call.kind = "ok" /\ call.end = "fail" /\ ~IsZero(call.fps)
            /\ NoBadFrame(call.frames)) =>
        /\ result.kind = "returned"
        /\ result.value.metadata.total_frames.n = Len(call.frames)
        /\ FrameNumbers(result.value.frames) = 1..Len(call.frames)
        /\ (call.output_json = "out.json" =>
               files["out.json"] = JsonFile(JsonDump(result.value)))
        /\ (DecodeFailureReport \in result.log \/ result.exc = DecodeFailureReport)

-----------------------------------------------------------------------------
(* C7 *)

\* process_video got as far as save_to_json, at a path where the write fails
WriteFailedInProcessVideo ==
    /\ Exited
    /\ cap = "released"
    /\ ~IsZero(call.fps)
    /\ call.output_json # ""
    /\ WriteOutcome(call.output_json) # "ok"

\* C7: when the write of the output file fails inside process_video, the
\* failure is printed, process_video still returns the full result, and
\* the tracker holds the records of every decoded frame.
C7_WriteFailureKeepsResult ==
    WriteFailedInProcessVideo =>
        LET n == Len(call.frames)
            records == RecordsOfFrames(call.frames, call.fps, n)
        IN  /\ result.kind = "returned"
            /\ SaveErrorMsg \in result.log
            /\ result.value =
                  TrackingResult(Metadata(VideoPath, n, call.fps, records), records)
            /\ landmarks_data = records

\* a write failed after frames with and without a face had been recorded
C7_Witness ==
    /\ WriteFailedInProcessVideo
    /\ SaveErrorMsg \in result.log
    /\ Cardinality(DOMAIN landmarks_data) >= 2
    /\ FramesWithFace(landmarks_data) = 1

-----------------------------------------------------------------------------
(* C8 *)

\* C8: no exit of process_video leaves the decode handle open.
C8_HandleReleasedOnExit == pc = "idle" => cap # "open"

-----------------------------------------------------------------------------
(* C9 *)

\* C9: whatever frame count the container reports, process_video on a
\* video whose frames all decode and detect, with fps # 0, returns, with
\* total_frames and the frame records that the decoded frames determine.
C9_FrameCountIsInformational ==
    (Exited /\ call.kind = "ok" /\ ~IsZero(call.fps) /\ NoBadFrame(call.frames)) =>
        /\ result.kind = "returned"
        /\ result.value.metadata.total_frames.n = Len(call.frames)
        /\ result.value.frames =
              RecordsOfFrames(call.frames, call.fps, Len(call.frames))

-----------------------------------------------------------------------------
(* C10 *)

\* every record the tracker holds is the record of a frame of the most
\* recent process_video call
OnlyRecordsOfLastCall ==
    \A k \in DOMAIN landmarks_data :
        \E i \in 1..Len(call.frames) :
            /\ k = FrameKey(i)
            /\ landmarks_data[k] = RecordOfFrame(call.frames, call.fps, i)

====
